---- MODULE Spec2Model ----
(***************************************************************************)
(* The three scheduling policies of src/scheduler/main.rs (RoundRobin,     *)
(* RobinPriority, CfsScheduler) as one state machine.  A behaviour fixes   *)
(* one policy and its configuration in Init; the actions are the trait     *)
(* methods next and stop, one action per policy and method.  The driver    *)
(* side of the protocol is the pair (call, ret): the last call made on the *)
(* scheduler and the value it returned.                                    *)
(***************************************************************************)
EXTENDS Integers, Sequences, FiniteSets, TLC

\* ------------------------------------------------------------------ bounds

\* Fork is not called once next_pid has passed MaxPid.
MaxPid == 3
\* A stop that would leave more than MaxQueue entries in the runqueues is not
\* issued (only a driver that breaks the protocol can enqueue a pid twice).
MaxQueue == 4
\* The largest `remaining` a driver reports in a Syscall stop.
MaxRemaining == 2
\* CfsScheduler::stop is not called once some vruntime has passed MaxVruntime.
MaxVruntime == 6
\* How many calls of a behaviour may break the driver contract.
MaxViolations == 1

Policies == {"RoundRobin", "RobinPriority", "CfsScheduler"}
\* Constructor arguments tried (NonZeroUsize).
Timeslices == {3, 5}
BaseTimes == {2, 5}
\* Syscall arguments tried.
Events == {5, 7}
SleepTimes == {2}

VARIABLES
    policy,         \* which of the three structs this behaviour is about
    timeslice,      \* RoundRobin.timeslice / RobinPriority.timeslice
    cfs_base_time,  \* CfsScheduler.cfs_base_time
    processes,      \* the HashMap<Pid, MyProcess | CfsProcess>
    queue,          \* RoundRobin.queue
    queues,         \* RobinPriority.queues, indexed 1..6 for priorities 0..5
    next_pid,       \* the pid counter
    aborted,        \* a panic (index out of bounds, arithmetic overflow) ended the program
    call,           \* the last call the driver made, with its arguments
    ret,            \* the value that call returned
    violations,     \* how many calls so far broke the driver contract
    blocked,        \* the processes the calls made so far have blocked, and on what
    listed          \* what list returned, if it was called since the last next or stop

vars == <<policy, timeslice, cfs_base_time, processes, queue, queues, next_pid,
          aborted, call, ret, violations, blocked, listed>>

config == <<policy, timeslice, cfs_base_time>>

\* ------------------------------------------------------- protocol values

\* SchedulingDecision and SyscallResult, as records of one shape.
Run(pid, slice) == [kind |-> "Run", pid |-> pid, n |-> slice]
SleepFor(n) == [kind |-> "Sleep", pid |-> 0, n |-> n]
Deadlock == [kind |-> "Deadlock", pid |-> 0, n |-> 0]
Panic == [kind |-> "Panic", pid |-> 0, n |-> 0]
Done == [kind |-> "Done", pid |-> 0, n |-> 0]
PidResult(pid) == [kind |-> "Pid", pid |-> pid, n |-> 0]
Success == [kind |-> "Success", pid |-> 0, n |-> 0]
NoRunningProcess == [kind |-> "NoRunningProcess", pid |-> 0, n |-> 0]
\* Nothing returned: before the first call, or a call that panicked.
NoReturn == [kind |-> "None", pid |-> 0, n |-> 0]

\* ProcessInfo, and the Vec<ProcessInfo> of list as the set of its entries
\* (the order of HashMap::values is not specified).
ProcessInfo(pid, state, timings) == [pid |-> pid, state |-> state, timings |-> timings]
NoListing == [called |-> FALSE, entries |-> {}]
Listed(entries) == [called |-> TRUE, entries |-> entries]

\* StopReason: Expired{pid} and Syscall{syscall, remaining, pid}; kind is
\* "Expired" or the syscall's variant, arg the variant's argument.
Expired(pid) == [kind |-> "Expired", arg |-> 0, remaining |-> 0, pid |-> pid]
Syscall(kind, arg, remaining, pid) ==
    [kind |-> kind, arg |-> arg, remaining |-> remaining, pid |-> pid]

NewCall == [op |-> "new", kind |-> "", arg |-> 0, remaining |-> 0, pid |-> 0]
NextCall == [op |-> "next", kind |-> "", arg |-> 0, remaining |-> 0, pid |-> 0]
StopCall(reason) ==
    [op |-> "stop", kind |-> reason.kind, arg |-> reason.arg,
     remaining |-> reason.remaining, pid |-> reason.pid]

\* ------------------------------------------------------------ the structs

MyProcess(pid, state, priority) ==
    [pid |-> pid, state |-> state, priority |-> priority]

CfsProcess(pid, state, vruntime) ==
    [pid |-> pid, state |-> state, vruntime |-> vruntime]

\* HashMap::insert / HashMap::remove on a function whose domain is the key set.
Insert(map, key, value) ==
    [k \in DOMAIN map \cup {key} |-> IF k = key THEN value ELSE map[k]]

Remove(map, key) == [k \in DOMAIN map \ {key} |-> map[k]]

EmptyMap == [k \in {} |-> 0]

EmptyQueues == [i \in 1..6 |-> <<>>]

Init ==
    /\ policy \in Policies
    /\ timeslice \in IF policy = "CfsScheduler" THEN {1} ELSE Timeslices
    /\ cfs_base_time \in IF policy = "CfsScheduler" THEN BaseTimes ELSE {1}
    /\ processes = EmptyMap
    /\ queue = <<>>
    /\ queues = EmptyQueues
    /\ next_pid = 1
    /\ aborted = FALSE
    /\ call = NewCall
    /\ ret = NoReturn
    /\ violations = 0
    /\ blocked = EmptyMap
    /\ listed = NoListing

\* ------------------------------------------------------------ RoundRobin

\* RoundRobinNext with the pid taken from the back of the queue.
RoundRobinNextLifo ==
    /\ policy = "RoundRobin"
    /\ ~aborted
    /\ call' = NextCall
    /\ IF queue # <<>>
       THEN LET pid == queue[Len(queue)]
                rest == SubSeq(queue, 1, Len(queue) - 1) IN
            /\ queue' = rest
            /\ IF pid \in DOMAIN processes
               THEN /\ processes' = [processes EXCEPT ![pid].state = "Running"]
                    /\ ret' = Run(pid, timeslice)
               ELSE /\ processes' = processes
                    /\ ret' = IF rest = <<>> THEN SleepFor(1) ELSE Done
       ELSE /\ ret' = SleepFor(1)
            /\ UNCHANGED <<processes, queue>>
    /\ UNCHANGED <<config, queues, next_pid, aborted>>

\* RoundRobinNext with the dispatched pid kept in the queue, at its tail.
RoundRobinNextKeepsQueued ==
    /\ policy = "RoundRobin"
    /\ ~aborted
    /\ call' = NextCall
    /\ IF queue # <<>>
       THEN LET pid == Head(queue) IN
            IF pid \in DOMAIN processes
            THEN /\ queue' = Append(Tail(queue), pid)
                 /\ processes' = [processes EXCEPT ![pid].state = "Running"]
                 /\ ret' = Run(pid, timeslice)
            ELSE /\ queue' = Tail(queue)
                 /\ processes' = processes
                 /\ ret' = IF Tail(queue) = <<>> THEN SleepFor(1) ELSE Done
       ELSE /\ ret' = SleepFor(1)
            /\ UNCHANGED <<processes, queue>>
    /\ UNCHANGED <<config, queues, next_pid, aborted>>

RoundRobinNext ==
    /\ policy = "RoundRobin"
    /\ ~aborted
    /\ call' = NextCall
    /\ IF queue # <<>>
       THEN LET pid == Head(queue) IN
            /\ queue' = Tail(queue)
            /\ IF pid \in DOMAIN processes
               THEN /\ processes' = [processes EXCEPT ![pid].state = "Running"]
                    /\ ret' = Run(pid, timeslice)
               ELSE /\ processes' = processes
                    /\ ret' = IF Tail(queue) = <<>> THEN SleepFor(1) ELSE Done
       ELSE /\ ret' = SleepFor(1)
            /\ UNCHANGED <<processes, queue>>
    /\ UNCHANGED <<config, queues, next_pid, aborted>>

\* RRExpired with the pid put at the front of the queue.
RRExpiredPushFront(pid) ==
    /\ IF pid \in DOMAIN processes
       THEN /\ processes' = [processes EXCEPT ![pid].state = "Ready"]
            /\ queue' = <<pid>> \o queue
       ELSE UNCHANGED <<processes, queue>>
    /\ ret' = Success
    /\ UNCHANGED next_pid

\* RRExpired with the state left Running when the pid is re-enqueued.
RRExpiredStaysRunning(pid) ==
    /\ IF pid \in DOMAIN processes
       THEN /\ processes' = processes
            /\ queue' = Append(queue, pid)
       ELSE UNCHANGED <<processes, queue>>
    /\ ret' = Success
    /\ UNCHANGED next_pid

RRExpired(pid) ==
    /\ IF pid \in DOMAIN processes
       THEN /\ processes' = [processes EXCEPT ![pid].state = "Ready"]
            /\ queue' = Append(queue, pid)
       ELSE UNCHANGED <<processes, queue>>
    /\ ret' = Success
    /\ UNCHANGED next_pid

\* RRFork with the smallest pid not in the table given to the child (a pid
\* is handed out again once its process has exited).
RRForkReusesPid(pid, prio) ==
    LET free == (1..next_pid) \ DOMAIN processes
        child_pid == CHOOSE p \in free : \A q \in free : p <= q
        inserted == Insert(processes, child_pid, MyProcess(child_pid, "Ready", prio))
    IN  /\ next_pid' = next_pid + 1
        /\ IF pid \in DOMAIN inserted
           THEN /\ processes' = [inserted EXCEPT ![pid].state = "Ready"]
                /\ queue' = Append(Append(queue, child_pid), pid)
           ELSE /\ processes' = inserted
                /\ queue' = Append(queue, child_pid)
        /\ ret' = PidResult(child_pid)

\* RRFork with the parent enqueued before the child.
RRForkParentFirst(pid, prio) ==
    LET child_pid == next_pid
        inserted == Insert(processes, child_pid, MyProcess(child_pid, "Ready", prio))
    IN  /\ next_pid' = next_pid + 1
        /\ IF pid \in DOMAIN inserted
           THEN /\ processes' = [inserted EXCEPT ![pid].state = "Ready"]
                /\ queue' = Append(Append(queue, pid), child_pid)
           ELSE /\ processes' = inserted
                /\ queue' = Append(queue, child_pid)
        /\ ret' = PidResult(child_pid)

\* RRFork with the child inserted in the table but not enqueued.
RRForkChildNotEnqueued(pid, prio) ==
    LET child_pid == next_pid
        inserted == Insert(processes, child_pid, MyProcess(child_pid, "Ready", prio))
    IN  /\ next_pid' = next_pid + 1
        /\ IF pid \in DOMAIN inserted
           THEN /\ processes' = [inserted EXCEPT ![pid].state = "Ready"]
                /\ queue' = Append(queue, pid)
           ELSE /\ processes' = inserted
                /\ queue' = queue
        /\ ret' = PidResult(child_pid)

RRFork(pid, prio) ==
    LET child_pid == next_pid
        inserted == Insert(processes, child_pid, MyProcess(child_pid, "Ready", prio))
    IN  /\ next_pid' = next_pid + 1
        /\ IF pid \in DOMAIN inserted
           THEN /\ processes' = [inserted EXCEPT ![pid].state = "Ready"]
                /\ queue' = Append(Append(queue, child_pid), pid)
           ELSE /\ processes' = inserted
                /\ queue' = Append(queue, child_pid)
        /\ ret' = PidResult(child_pid)

\* RRExit with the exiting pid put back in the queue.
RRExitReEnqueues(pid) ==
    /\ processes' = Remove(processes, pid)
    /\ queue' = Append(queue, pid)
    /\ ret' = Success
    /\ UNCHANGED next_pid

RRExit(pid) ==
    /\ processes' = Remove(processes, pid)
    /\ ret' = Success
    /\ UNCHANGED <<queue, next_pid>>

\* RRCatchAll with the caller blocked instead of made Ready and re-enqueued.
RRCatchAllBlocks(pid) ==
    /\ IF pid \in DOMAIN processes
       THEN /\ processes' = [processes EXCEPT ![pid].state = "Waiting"]
            /\ queue' = queue
       ELSE UNCHANGED <<processes, queue>>
    /\ ret' = Success
    /\ UNCHANGED next_pid

RRCatchAll(pid) ==
    /\ IF pid \in DOMAIN processes
       THEN /\ processes' = [processes EXCEPT ![pid].state = "Ready"]
            /\ queue' = Append(queue, pid)
       ELSE UNCHANGED <<processes, queue>>
    /\ ret' = Success
    /\ UNCHANGED next_pid

RoundRobinStop(reason) ==
    /\ policy = "RoundRobin"
    /\ ~aborted
    /\ reason.kind = "Fork" => next_pid <= MaxPid
    /\ call' = StopCall(reason)
    /\ CASE reason.kind = "Expired" -> RRExpired(reason.pid)
         [] reason.kind = "Fork" -> RRFork(reason.pid, reason.arg)
         [] reason.kind = "Exit" -> RRExit(reason.pid)
         [] OTHER -> RRCatchAll(reason.pid)
    /\ Len(queue') <= MaxQueue
    /\ UNCHANGED <<config, queues, aborted>>

\* --------------------------------------------------------- RobinPriority

\* queues[priority as usize]: the array holds priorities 0..5, any other
\* index panics.
InRange(priority) == priority >= 0 /\ priority <= 5

PushBack(qs, priority, pid) == [qs EXCEPT ![priority + 1] = Append(@, pid)]

\* The loop of RobinPriority::next from priority i down to 0: the head of each
\* non-empty queue is popped, and the first popped pid that is in the process
\* table is dispatched (pid 0: none was).
\* The scan of the queues started at priority 0 and going up.
RECURSIVE RRPScanUp(_, _)
RRPScanUp(i, qs) ==
    IF i > 5
    THEN [queues |-> qs, pid |-> 0]
    ELSE IF qs[i + 1] # <<>>
         THEN LET pid == Head(qs[i + 1])
                  popped == [qs EXCEPT ![i + 1] = Tail(@)]
              IN  IF pid \in DOMAIN processes
                  THEN [queues |-> popped, pid |-> pid]
                  ELSE RRPScanUp(i + 1, popped)
         ELSE RRPScanUp(i + 1, qs)

\* RRPScan with the queues visited from the lowest priority.
RRPScanLowestFirst(i, qs) == RRPScanUp(5 - i, qs)

RECURSIVE RRPScan(_, _)
RRPScan(i, qs) ==
    IF i < 0
    THEN [queues |-> qs, pid |-> 0]
    ELSE IF qs[i + 1] # <<>>
         THEN LET pid == Head(qs[i + 1])
                  popped == [qs EXCEPT ![i + 1] = Tail(@)]
              IN  IF pid \in DOMAIN processes
                  THEN [queues |-> popped, pid |-> pid]
                  ELSE RRPScan(i - 1, popped)
         ELSE RRPScan(i - 1, qs)

\* RobinPriorityNext with a timeslice that grows with the priority.
RobinPriorityNextScaled ==
    /\ policy = "RobinPriority"
    /\ ~aborted
    /\ call' = NextCall
    /\ LET scan == RRPScan(5, queues) IN
       /\ queues' = scan.queues
       /\ IF scan.pid # 0
          THEN /\ processes' = [processes EXCEPT ![scan.pid].state = "Running"]
               /\ ret' = Run(scan.pid, timeslice + processes[scan.pid].priority)
          ELSE /\ processes' = processes
               /\ ret' = SleepFor(1)
    /\ UNCHANGED <<config, queue, next_pid, aborted>>

RobinPriorityNext ==
    /\ policy = "RobinPriority"
    /\ ~aborted
    /\ call' = NextCall
    /\ LET scan == RRPScan(5, queues) IN
       /\ queues' = scan.queues
       /\ IF scan.pid # 0
          THEN /\ processes' = [processes EXCEPT ![scan.pid].state = "Running"]
               /\ ret' = Run(scan.pid, timeslice)
          ELSE /\ processes' = processes
               /\ ret' = SleepFor(1)
    /\ UNCHANGED <<config, queue, next_pid, aborted>>

\* RRPExpired with the process put at the front of the queue of its priority.
RRPExpiredPushFront(pid) ==
    /\ IF pid \in DOMAIN processes
       THEN LET priority == IF processes[pid].priority > 0
                            THEN processes[pid].priority - 1
                            ELSE processes[pid].priority
            IN  /\ processes' = [processes EXCEPT ![pid].priority = priority,
                                                  ![pid].state = "Ready"]
                /\ queues' = [queues EXCEPT ![priority + 1] = <<pid>> \o @]
       ELSE UNCHANGED <<processes, queues>>
    /\ ret' = Success
    /\ UNCHANGED <<next_pid, aborted>>

\* RRPExpired with the priority left as it is.
RRPExpiredKeepsPriority(pid) ==
    /\ IF pid \in DOMAIN processes
       THEN /\ processes' = [processes EXCEPT ![pid].state = "Ready"]
            /\ queues' = PushBack(queues, processes[pid].priority, pid)
       ELSE UNCHANGED <<processes, queues>>
    /\ ret' = Success
    /\ UNCHANGED <<next_pid, aborted>>

RRPExpired(pid) ==
    /\ IF pid \in DOMAIN processes
       THEN LET priority == IF processes[pid].priority > 0
                            THEN processes[pid].priority - 1
                            ELSE processes[pid].priority
            IN  IF InRange(priority)
                THEN /\ processes' = [processes EXCEPT ![pid].priority = priority,
                                                       ![pid].state = "Ready"]
                     /\ queues' = PushBack(queues, priority, pid)
                     /\ ret' = Success
                     /\ UNCHANGED aborted
                ELSE /\ aborted' = TRUE
                     /\ ret' = NoReturn
                     /\ UNCHANGED <<processes, queues>>
       ELSE /\ ret' = Success
            /\ UNCHANGED <<processes, queues, aborted>>
    /\ UNCHANGED next_pid

RRPExit(pid) ==
    /\ processes' = Remove(processes, pid)
    /\ ret' = Success
    /\ UNCHANGED <<queues, next_pid, aborted>>

\* RRPFork with the parent raised by two levels.
RRPForkRaisesTwice(pid, prio) ==
    LET kpid == next_pid
        inserted == Insert(processes, kpid, MyProcess(kpid, "Ready", prio))
        withChild == PushBack(queues, prio, kpid)
    IN  /\ next_pid' = next_pid + 1
        /\ IF ~InRange(prio)
           THEN /\ aborted' = TRUE
                /\ ret' = NoReturn
                /\ UNCHANGED <<processes, queues>>
           ELSE /\ IF pid \in DOMAIN inserted
                   THEN LET priority == IF inserted[pid].priority < 4
                                        THEN inserted[pid].priority + 2
                                        ELSE 5
                        IN  /\ processes' = [inserted EXCEPT ![pid].priority = priority,
                                                             ![pid].state = "Ready"]
                            /\ queues' = PushBack(withChild, priority, pid)
                   ELSE /\ processes' = inserted
                        /\ queues' = withChild
                /\ ret' = PidResult(kpid)
                /\ UNCHANGED aborted

RRPFork(pid, prio) ==
    LET kpid == next_pid
        inserted == Insert(processes, kpid, MyProcess(kpid, "Ready", prio))
        withChild == PushBack(queues, prio, kpid)
    IN  /\ next_pid' = next_pid + 1
        /\ IF ~InRange(prio)
           THEN /\ aborted' = TRUE
                /\ ret' = NoReturn
                /\ UNCHANGED <<processes, queues>>
           ELSE /\ IF pid \in DOMAIN inserted
                   THEN LET priority == IF inserted[pid].priority < 5
                                        THEN inserted[pid].priority + 1
                                        ELSE inserted[pid].priority
                        IN  /\ processes' = [inserted EXCEPT ![pid].priority = priority,
                                                             ![pid].state = "Ready"]
                            /\ queues' = PushBack(withChild, priority, pid)
                   ELSE /\ processes' = inserted
                        /\ queues' = withChild
                /\ ret' = PidResult(kpid)
                /\ UNCHANGED aborted

\* RRPCatchAll with the process pushed on the queue of the priority it had.
RRPCatchAllOldQueue(pid) ==
    /\ IF pid \in DOMAIN processes
       THEN LET priority == IF processes[pid].priority < 5
                            THEN processes[pid].priority + 1
                            ELSE processes[pid].priority
            IN  /\ processes' = [processes EXCEPT ![pid].priority = priority,
                                                  ![pid].state = "Ready"]
                /\ queues' = PushBack(queues, processes[pid].priority, pid)
       ELSE UNCHANGED <<processes, queues>>
    /\ ret' = Success
    /\ UNCHANGED <<next_pid, aborted>>

RRPCatchAll(pid) ==
    /\ IF pid \in DOMAIN processes
       THEN LET priority == IF processes[pid].priority < 5
                            THEN processes[pid].priority + 1
                            ELSE processes[pid].priority
            IN  /\ processes' = [processes EXCEPT ![pid].priority = priority,
                                                  ![pid].state = "Ready"]
                /\ queues' = PushBack(queues, priority, pid)
       ELSE UNCHANGED <<processes, queues>>
    /\ ret' = Success
    /\ UNCHANGED <<next_pid, aborted>>

\* The number of pids held in the six queues.
RECURSIVE QueuedFrom(_, _)
QueuedFrom(qs, i) == IF i > 6 THEN 0 ELSE Len(qs[i]) + QueuedFrom(qs, i + 1)

RobinPriorityStop(reason) ==
    /\ policy = "RobinPriority"
    /\ ~aborted
    /\ reason.kind = "Fork" => next_pid <= MaxPid
    /\ call' = StopCall(reason)
    /\ CASE reason.kind = "Expired" -> RRPExpired(reason.pid)
         [] reason.kind = "Exit" -> RRPExit(reason.pid)
         [] reason.kind = "Fork" -> RRPFork(reason.pid, reason.arg)
         [] OTHER -> RRPCatchAll(reason.pid)
    /\ QueuedFrom(queues', 1) <= MaxQueue
    /\ UNCHANGED <<config, queue>>

\* ---------------------------------------------------------- CfsScheduler

\* max(1, base / count), the integer division of usize.
\* Slice without the floor of 1.
SliceUnclamped(base, count) == base \div count

Slice(base, count) == IF base \div count < 1 THEN 1 ELSE base \div count

ReadyPids == {p \in DOMAIN processes : processes[p].state = "Ready"}

\* CfsSelectable without the comparison of vruntimes.
CfsSelectableAny == ReadyPids

\* The pids the selection loop of CfsScheduler::next can end on: it keeps the
\* first process of minimal vruntime it meets (strict <), and meets the ready
\* processes in the iteration order of the HashMap, which is not specified.
CfsSelectable ==
    {p \in ReadyPids : \A q \in ReadyPids : processes[p].vruntime <= processes[q].vruntime}

CfsSchedulerNext ==
    /\ policy = "CfsScheduler"
    /\ ~aborted
    /\ call' = NextCall
    /\ IF ReadyPids = {}
       THEN /\ ret' = IF DOMAIN processes = {} THEN Done ELSE SleepFor(1)
            /\ UNCHANGED processes
       ELSE \E s_pid \in CfsSelectable :
                /\ processes' = [processes EXCEPT ![s_pid].state = "Running"]
                /\ ret' = Run(s_pid, Slice(cfs_base_time, Cardinality(ReadyPids)))
    /\ UNCHANGED <<config, queue, queues, next_pid, aborted>>

\* AllocatedTime with the Running process left out of the count.
AllocatedTimeReadyOnly ==
    LET active_procs == Cardinality(ReadyPids)
        safe_count == IF active_procs = 0 THEN 1 ELSE active_procs
    IN  Slice(cfs_base_time, safe_count)

\* allocated_time of CfsScheduler::stop, recomputed from the table.
AllocatedTime ==
    LET active_procs == Cardinality({p \in DOMAIN processes :
                            processes[p].state \in {"Ready", "Running"}})
        safe_count == IF active_procs = 0 THEN 1 ELSE active_procs
    IN  Slice(cfs_base_time, safe_count)

\* The table after `proc.vruntime += ticks` for pid, if it is there.
Charged(pid, ticks) ==
    IF pid \in DOMAIN processes
    THEN [processes EXCEPT ![pid].vruntime = @ + ticks]
    ELSE processes

MarkReady(map, pid) ==
    IF pid \in DOMAIN map THEN [map EXCEPT ![pid].state = "Ready"] ELSE map

CfsExpired(pid) ==
    /\ processes' = MarkReady(Charged(pid, AllocatedTime), pid)
    /\ ret' = Success
    /\ UNCHANGED <<next_pid, aborted>>

\* CfsExit with the ticks executed charged to every process.
CfsExitChargesAll(pid, executed) ==
    /\ processes' = Remove([p \in DOMAIN processes |->
                              [processes[p] EXCEPT !.vruntime = @ + executed]], pid)
    /\ ret' = Success
    /\ UNCHANGED <<next_pid, aborted>>

CfsExit(pid, executed) ==
    /\ processes' = Remove(Charged(pid, executed), pid)
    /\ ret' = Success
    /\ UNCHANGED <<next_pid, aborted>>

\* CfsFork with the child given the vruntime the parent had before the charge.
CfsForkBeforeCharge(pid, executed) ==
    LET charged == Charged(pid, executed)
        parent_runtime == IF pid \in DOMAIN processes THEN processes[pid].vruntime ELSE 0
        k_pid == next_pid
    IN  /\ next_pid' = next_pid + 1
        /\ processes' = MarkReady(Insert(charged, k_pid,
                                         CfsProcess(k_pid, "Ready", parent_runtime)), pid)
        /\ ret' = PidResult(k_pid)
        /\ UNCHANGED aborted

\* CfsFork with the child created in state Waiting.
CfsForkChildWaiting(pid, executed) ==
    LET charged == Charged(pid, executed)
        parent_runtime == IF pid \in DOMAIN charged THEN charged[pid].vruntime ELSE 0
        k_pid == next_pid
    IN  /\ next_pid' = next_pid + 1
        /\ processes' = MarkReady(Insert(charged, k_pid,
                                         CfsProcess(k_pid, "Waiting", parent_runtime)), pid)
        /\ ret' = PidResult(k_pid)
        /\ UNCHANGED aborted

CfsFork(pid, executed) ==
    LET charged == Charged(pid, executed)
        parent_runtime == IF pid \in DOMAIN charged THEN charged[pid].vruntime ELSE 0
        k_pid == next_pid
    IN  /\ next_pid' = next_pid + 1
        /\ processes' = MarkReady(Insert(charged, k_pid,
                                         CfsProcess(k_pid, "Ready", parent_runtime)), pid)
        /\ ret' = PidResult(k_pid)
        /\ UNCHANGED aborted

CfsCatchAll(pid, executed) ==
    /\ processes' = MarkReady(Charged(pid, executed), pid)
    /\ ret' = Success
    /\ UNCHANGED <<next_pid, aborted>>

\* `allocated_time - remaining` on usize: a remaining above allocated_time
\* overflows.  A debug build panics there.  A release build wraps to a value
\* near 2^64: added to the vruntime of a process of the table it leaves the
\* vruntimes followed here, and that behaviour is not followed further; when
\* the pid is not in the table the value is not used and the call goes on.
CfsSchedulerStop(reason) ==
    /\ policy = "CfsScheduler"
    /\ ~aborted
    /\ reason.kind = "Fork" => next_pid <= MaxPid
    /\ \A p \in DOMAIN processes : processes[p].vruntime <= MaxVruntime
    /\ call' = StopCall(reason)
    /\ IF reason.kind = "Expired"
       THEN CfsExpired(reason.pid)
       ELSE IF reason.remaining > AllocatedTime
            THEN \/ /\ aborted' = TRUE
                    /\ ret' = NoReturn
                    /\ UNCHANGED <<processes, next_pid>>
                 \/ /\ reason.pid \notin DOMAIN processes
                    /\ CASE reason.kind = "Exit" -> CfsExit(reason.pid, 0)
                         [] reason.kind = "Fork" -> CfsFork(reason.pid, 0)
                         [] OTHER -> CfsCatchAll(reason.pid, 0)
            ELSE LET executed == AllocatedTime - reason.remaining IN
                 CASE reason.kind = "Exit" -> CfsExit(reason.pid, executed)
                   [] reason.kind = "Fork" -> CfsFork(reason.pid, executed)
                   [] OTHER -> CfsCatchAll(reason.pid, executed)
    /\ UNCHANGED <<config, queue, queues>>

\* ------------------------------------------------------------- the driver

Pids == 0..MaxPid

\* Fork arguments tried.  Only RobinPriority reads the priority (RoundRobin
\* stores it, CfsScheduler drops it).
ForkPrios(pol) ==
    IF pol = "RobinPriority" THEN {-1, 0, 3, 6}
    ELSE IF pol = "RoundRobin" THEN {0, 3} ELSE {0}

\* Only CfsScheduler reads `remaining`.
Remainings(pol) == IF pol = "CfsScheduler" THEN 0..MaxRemaining ELSE {0}

Syscalls(pol) ==
    {Syscall("Fork", prio, 0, 0) : prio \in ForkPrios(pol)}
    \cup {Syscall("Sleep", n, 0, 0) : n \in SleepTimes}
    \cup {Syscall("Exit", 0, 0, 0)}
    \cup {Syscall("Wait", e, 0, 0) : e \in Events}
    \cup {Syscall("Signal", e, 0, 0) : e \in Events}

\* The stop reasons a driver of policy pol passes.
Reasons(pol) ==
    {Expired(pid) : pid \in Pids}
    \cup {Syscall(s.kind, s.arg, remaining, pid) :
            s \in Syscalls(pol), remaining \in Remainings(pol), pid \in Pids}

RoundRobinReasons == Reasons("RoundRobin")
RobinPriorityReasons == Reasons("RobinPriority")
CfsSchedulerReasons == Reasons("CfsScheduler")

\* The conforming driver of main: the bootstrap fork first, then next and
\* stop alternating, each stop naming the pid of the preceding Run with a
\* `remaining` within the granted timeslice; a Sleep decision is followed by
\* next, and nothing follows Done, Deadlock or Panic.
BootstrapFork == Syscall("Fork", 0, 0, 0)

ConformingNext ==
    \/ call.op = "stop"
    \/ call.op = "next" /\ ret.kind = "Sleep"

ConformingStop(reason) ==
    \/ call.op = "new" /\ reason = BootstrapFork
    \/ /\ call.op = "next"
       /\ ret.kind = "Run"
       /\ reason.pid = ret.pid
       /\ reason.remaining <= ret.n

\* A next or a stop: the driver holds no listing of the table as it is now.
Unlisted == listed' = NoListing /\ UNCHANGED <<violations, blocked>>

Next ==
    \/ ConformingNext /\ RoundRobinNext /\ Unlisted
    \/ ConformingNext /\ RobinPriorityNext /\ Unlisted
    \/ ConformingNext /\ CfsSchedulerNext /\ Unlisted
    \/ policy = "RoundRobin" /\ \E reason \in RoundRobinReasons :
        ConformingStop(reason) /\ RoundRobinStop(reason) /\ Unlisted
    \/ policy = "RobinPriority" /\ \E reason \in RobinPriorityReasons :
        ConformingStop(reason) /\ RobinPriorityStop(reason) /\ Unlisted
    \/ policy = "CfsScheduler" /\ \E reason \in CfsSchedulerReasons :
        ConformingStop(reason) /\ CfsSchedulerStop(reason) /\ Unlisted

Spec == Init /\ [][Next]_vars

\* The loop of main does not stop calling: whenever the conforming driver has
\* a call to make, it makes one.
SpecLoop == Spec /\ WF_vars(Next)

\* A driver that may break the protocol: any call at any time with any pid,
\* the calls that break the protocol counted and at most MaxViolations made.
Counted(conforming) ==
    IF conforming
    THEN violations' = violations
    ELSE violations < MaxViolations /\ violations' = violations + 1

Untracked(conforming) == Counted(conforming) /\ UNCHANGED <<blocked, listed>>

NextAnyDriver ==
    \/ RoundRobinNext /\ Untracked(ConformingNext)
    \/ RobinPriorityNext /\ Untracked(ConformingNext)
    \/ CfsSchedulerNext /\ Untracked(ConformingNext)
    \/ policy = "RoundRobin" /\ \E reason \in RoundRobinReasons :
        RoundRobinStop(reason) /\ Untracked(ConformingStop(reason))
    \/ policy = "RobinPriority" /\ \E reason \in RobinPriorityReasons :
        RobinPriorityStop(reason) /\ Untracked(ConformingStop(reason))
    \/ policy = "CfsScheduler" /\ \E reason \in CfsSchedulerReasons :
        CfsSchedulerStop(reason) /\ Untracked(ConformingStop(reason))

SpecAnyDriver == Init /\ [][NextAnyDriver]_vars

\* The same conforming driver, with the record of §4.5 of the specification
\* kept beside the scheduler: blocked maps every process whose last stop was
\* Wait(e) and that no Signal(e) has released since, or whose last stop was
\* Sleep(n) and that the Sleep decisions since have not used up, to what it
\* is blocked on.  A process that a Signal(e) has released keeps the entry
\* Released(e) until its own next stop.
Drop(map, keys) == [k \in DOMAIN map \ keys |-> map[k]]

WaitingOn(e) == [kind |-> "Wait", arg |-> e]
Sleeping(n) == [kind |-> "Sleep", arg |-> n]
Released(e) == [kind |-> "Released", arg |-> e]

Waiters(e) == {p \in DOMAIN blocked : blocked[p] = WaitingOn(e)}
Sleepers == {p \in DOMAIN blocked : blocked[p].kind = "Sleep"}

TrackStop(reason) ==
    blocked' =
        CASE reason.kind = "Wait" ->
                Insert(blocked, reason.pid, WaitingOn(reason.arg))
          [] reason.kind = "Sleep" ->
                Insert(blocked, reason.pid, Sleeping(reason.arg))
          [] reason.kind = "Signal" ->
                [p \in DOMAIN blocked \ {reason.pid} |->
                    IF p \in Waiters(reason.arg)
                    THEN Released(reason.arg) ELSE blocked[p]]
          [] OTHER -> Drop(blocked, {reason.pid})

TrackNext ==
    blocked' =
        IF ret'.kind = "Sleep"
        THEN LET woken == {p \in Sleepers : blocked[p].arg <= ret'.n} IN
             [p \in DOMAIN blocked \ woken |->
                IF p \in Sleepers THEN Sleeping(blocked[p].arg - ret'.n) ELSE blocked[p]]
        ELSE blocked

NextTracked ==
    \/ ConformingNext /\ RoundRobinNext /\ TrackNext /\ UNCHANGED <<violations, listed>>
    \/ ConformingNext /\ RobinPriorityNext /\ TrackNext /\ UNCHANGED <<violations, listed>>
    \/ ConformingNext /\ CfsSchedulerNext /\ TrackNext /\ UNCHANGED <<violations, listed>>
    \/ policy = "RoundRobin" /\ \E reason \in RoundRobinReasons :
        /\ ConformingStop(reason) /\ RoundRobinStop(reason)
        /\ TrackStop(reason) /\ UNCHANGED <<violations, listed>>
    \/ policy = "RobinPriority" /\ \E reason \in RobinPriorityReasons :
        /\ ConformingStop(reason) /\ RobinPriorityStop(reason)
        /\ TrackStop(reason) /\ UNCHANGED <<violations, listed>>
    \/ policy = "CfsScheduler" /\ \E reason \in CfsSchedulerReasons :
        /\ ConformingStop(reason) /\ CfsSchedulerStop(reason)
        /\ TrackStop(reason) /\ UNCHANGED <<violations, listed>>

SpecTracked == Init /\ [][NextTracked]_vars

\* Listing without the process that is Running.
ListingOfReady ==
    {ProcessInfo(processes[p].pid, processes[p].state, <<0, 0, 0>>) : p \in ReadyPids}

\* The entries of list: one per record of the table, the timings a constant.
Listing ==
    {ProcessInfo(processes[p].pid, processes[p].state, <<0, 0, 0>>) : p \in DOMAIN processes}

RoundRobinList ==
    /\ policy = "RoundRobin"
    /\ ~aborted
    /\ listed' = Listed(Listing)
    /\ UNCHANGED <<config, processes, queue, queues, next_pid, aborted, call, ret>>

RobinPriorityList ==
    /\ policy = "RobinPriority"
    /\ ~aborted
    /\ listed' = Listed(Listing)
    /\ UNCHANGED <<config, processes, queue, queues, next_pid, aborted, call, ret>>

CfsSchedulerList ==
    /\ policy = "CfsScheduler"
    /\ ~aborted
    /\ listed' = Listed(Listing)
    /\ UNCHANGED <<config, processes, queue, queues, next_pid, aborted, call, ret>>

\* The conforming driver, which may also call list between any two calls;
\* call and ret keep the last next or stop and what it returned.
NextList ==
    \/ Next
    \/ RoundRobinList /\ UNCHANGED <<violations, blocked>>
    \/ RobinPriorityList /\ UNCHANGED <<violations, blocked>>
    \/ CfsSchedulerList /\ UNCHANGED <<violations, blocked>>

SpecList == Init /\ [][NextList]_vars

\* ------------------------------------------------------------ the claims

Live == DOMAIN processes
RunningPids == {p \in Live : processes[p].state = "Running"}

\* How often pid occurs in the runqueue(s) of the policy (CfsScheduler keeps none).
Occurrences(seq, pid) == Cardinality({i \in 1..Len(seq) : seq[i] = pid})
Enqueued(pid) ==
    Occurrences(queue, pid) + Occurrences(queues[1], pid) + Occurrences(queues[2], pid)
    + Occurrences(queues[3], pid) + Occurrences(queues[4], pid)
    + Occurrences(queues[5], pid) + Occurrences(queues[6], pid)

IsNext == call.op = "next"
IsStop(kind) == call.op = "stop" /\ call.kind = kind /\ ret.kind # "None"

\* C1: whenever next is called on an empty process table it returns Done
\* (in particular after pid 1, the last live process, has exited).
C1_NextOnEmptyTableReturnsDone ==
    [][(call'.op = "next" /\ Live = {}) => ret' = Done]_vars

\* C2: a stop made while no process is Running, other than the bootstrap fork
\* of pid 0 on a fresh scheduler, returns NoRunningProcess and leaves the
\* process table, the runqueues and the pid counter unchanged.
C2_StopWithoutRunningIsRejected ==
    [][(/\ call'.op = "stop"
        /\ RunningPids = {}
        /\ ~(call.op = "new" /\ call'.kind = "Fork" /\ call'.pid = 0))
       => /\ ret' = NoRunningProcess
          /\ UNCHANGED <<processes, queue, queues, next_pid>>]_vars

\* C3: when pid 1 has exited and left other processes in the table, the very
\* next call to next returns Panic.
C3_NextAfterInitExitReturnsPanic ==
    [][(/\ call.op = "stop" /\ call.kind = "Exit" /\ call.pid = 1
        /\ Live # {}
        /\ call'.op = "next")
       => ret' = Panic]_vars

\* C4: a process that has issued Wait(e), while no Signal(e) has been issued
\* since, is in state Waiting, is in no runqueue and is not the process the
\* last next returned.
C4_WaitBlocksUntilSignal ==
    \A p \in DOMAIN blocked :
        (blocked[p].kind = "Wait" /\ p \in Live)
        => /\ processes[p].state = "Waiting"
           /\ Enqueued(p) = 0
           /\ ~(IsNext /\ ret.kind = "Run" /\ ret.pid = p)

\* C5: when next is called while at least one process is live, none is
\* sleeping and every live process is blocked by a Wait it has issued, it
\* returns Deadlock.
C5_NextWithAllWaitingReturnsDeadlock ==
    [][(/\ call'.op = "next"
        /\ Live # {}
        /\ \A p \in Live : p \in DOMAIN blocked /\ blocked[p].kind = "Wait")
       => ret' = Deadlock]_vars

\* The caller of a catch-all syscall re-enqueued per policy: at the tail of the
\* one queue (RoundRobin), at the tail of the queue of its priority after the
\* syscall (RobinPriority), by its state alone (CfsScheduler).
CallerReEnqueued ==
    /\ call'.pid \in Live'
    /\ processes'[call'.pid].state = "Ready"
    /\ policy = "RoundRobin" => queue' = Append(queue, call'.pid)
    /\ policy = "RobinPriority" =>
          queues' = PushBack(queues, processes'[call'.pid].priority, call'.pid)
    /\ policy = "CfsScheduler" => UNCHANGED <<queue, queues>>

\* What a catch-all syscall changes in the caller's own record: its state, and
\* the policy's bookkeeping of a syscall (the priority raised by one up to 5 in
\* RobinPriority, the executed ticks added to the vruntime in CfsScheduler).
CallerOnlyRequeued ==
    LET old == processes[call'.pid]
        new == processes'[call'.pid]
    IN  /\ call'.pid \in Live
        /\ old.state = "Running"
        /\ new.pid = old.pid
        /\ policy = "RoundRobin" => new.priority = old.priority
        /\ policy = "RobinPriority" =>
              new.priority = IF old.priority < 5 THEN old.priority + 1 ELSE 5
        /\ policy = "CfsScheduler" =>
              new.vruntime = old.vruntime + ret.n - call'.remaining

\* C6: after stop(Syscall Signal(e)) the caller is Ready and re-enqueued per
\* policy, every process that had issued Wait(e) is Ready and none is Waiting;
\* the call returns Success, and it changes no process but the caller, nor
\* the key set of the table, nor the pid counter.
C6_SignalReadiesCallerAndWaiters ==
    [][(call'.op = "stop" /\ call'.kind = "Signal")
       => /\ ret' = Success
          /\ CallerReEnqueued
          /\ \A q \in Waiters(call'.arg) : q \in Live' /\ processes'[q].state = "Ready"
          /\ \A q \in Live' : processes'[q].state # "Waiting"
          /\ Live' = Live
          /\ next_pid' = next_pid
          /\ \A q \in Live \ {call'.pid} : processes'[q] = processes[q]
          /\ CallerOnlyRequeued]_vars

\* A Signal(e) has just released a process that had issued Wait(e).
C6_Witness ==
    /\ IsStop("Signal")
    /\ \E q \in DOMAIN blocked \ {call.pid} :
          /\ blocked[q] = Released(call.arg)
          /\ processes[q].state = "Ready"
    /\ processes[call.pid].state = "Ready"

\* C7: a process that has issued Sleep(n), while the Sleep decisions issued
\* since total less than n, is in state Waiting and is not the process the last
\* next returned.
C7_SleepBlocksForItsDuration ==
    \A p \in DOMAIN blocked :
        (blocked[p].kind = "Sleep" /\ p \in Live)
        => /\ processes[p].state = "Waiting"
           /\ ~(IsNext /\ ret.kind = "Run" /\ ret.pid = p)

\* C8: under the conforming driver at most one process is Running in every
\* reachable state, and none is after a stop has returned.
C8_AtMostOneRunning ==
    /\ Cardinality(RunningPids) <= 1
    /\ (call.op = "stop" /\ ret.kind # "None") => RunningPids = {}

\* A stop has returned with three live processes, none of them Running, after
\* a next had one of them Running.
C8_Witness ==
    /\ call.op = "stop"
    /\ ret = Success
    /\ Cardinality(Live) = 3
    /\ RunningPids = {}

\* C9: in RoundRobin and RobinPriority under the conforming driver, a Ready
\* pid occurs exactly once across the runqueues and a Running pid in none.
C9_StateMatchesLocation ==
    policy \in {"RoundRobin", "RobinPriority"} =>
        \A p \in Live :
            /\ processes[p].state = "Ready" => Enqueued(p) = 1
            /\ processes[p].state = "Running" => Enqueued(p) = 0

\* One process is Running and two are Ready in the runqueues.
C9_Witness ==
    /\ policy \in {"RoundRobin", "RobinPriority"}
    /\ Cardinality(RunningPids) = 1
    /\ Cardinality({p \in Live : processes[p].state = "Ready" /\ Enqueued(p) = 1}) = 2

\* C10: in RoundRobin and RobinPriority under the conforming driver, every pid
\* held in a runqueue is a key of the process table, and after
\* stop(Syscall Exit) for pid p, p is in neither.
C10_QueuedPidsAreLive ==
    policy \in {"RoundRobin", "RobinPriority"} =>
        /\ \A p \in Pids \cup {MaxPid + 1} : Enqueued(p) > 0 => p \in Live
        /\ IsStop("Exit") => call.pid \notin Live /\ Enqueued(call.pid) = 0

\* A process has exited and left two others, both in the runqueues.
C10_Witness ==
    /\ policy \in {"RoundRobin", "RobinPriority"}
    /\ IsStop("Exit")
    /\ call.pid \notin Live
    /\ Cardinality({p \in Live : Enqueued(p) = 1}) = 2

\* A stop with the given syscall has been called and has returned Pid(child).
ForkReturns == call'.op = "stop" /\ call'.kind = "Fork" /\ ret'.kind = "Pid"

\* C11: the pid counter never decreases and never falls to a pid of the
\* table, and every Fork returns the counter's value and leaves the counter
\* above it: the pid returned is above every pid returned earlier, whether or
\* not the process that held it has exited.
C11_ForkPidsStrictlyIncrease ==
    [][/\ next_pid' >= next_pid
       /\ \A p \in Live' : p < next_pid'
       /\ ForkReturns =>
            /\ ret'.pid = next_pid
            /\ ret'.pid < next_pid'
            /\ \A p \in Live : p < ret'.pid]_vars

\* A Fork has returned pid 3 after the process of pid 2 has exited.
C11_Witness ==
    /\ IsStop("Fork")
    /\ ret = PidResult(3)
    /\ 2 \notin Live
    /\ 3 \in Live

\* C12: the bootstrap fork on a fresh scheduler returns Pid(1) and leaves
\* exactly pid 1 in the table, Ready, and the next that follows returns Run
\* for pid 1.
C12_BootstrapCreatesPidOne ==
    [][/\ (call.op = "new" /\ call' = StopCall(BootstrapFork))
          => /\ ret' = PidResult(1)
             /\ Live' = {1}
             /\ processes'[1].pid = 1
             /\ processes'[1].state = "Ready"
       /\ (call = StopCall(BootstrapFork) /\ next_pid = 2 /\ call'.op = "next")
          => /\ ret'.kind = "Run"
             /\ ret'.pid = 1
             /\ processes'[1].state = "Running"]_vars

\* The next after the bootstrap fork has returned Run for pid 1.
C12_Witness ==
    /\ IsNext
    /\ ret.kind = "Run" /\ ret.pid = 1
    /\ next_pid = 2
    /\ Live = {1}
    /\ policy = "CfsScheduler"

IsPrefix(s, t) == Len(s) <= Len(t) /\ \A i \in 1..Len(s) : s[i] = t[i]

\* C13: in RoundRobin every next dispatches the head of the queue and leaves
\* the rest in its order, and every stop only appends to the queue: of two
\* pids in the queue, the one enqueued first is dispatched first.
C13_RoundRobinIsFifo ==
    [][policy = "RoundRobin" =>
        /\ (call'.op = "next" /\ queue # <<>>)
           => ret' = Run(Head(queue), timeslice) /\ queue' = Tail(queue)
        /\ call'.op = "stop" => IsPrefix(queue, queue')]_vars

\* The head of a queue of three has been dispatched, the two enqueued after it wait.
C13_Witness ==
    /\ policy = "RoundRobin"
    /\ IsNext
    /\ ret.kind = "Run"
    /\ Len(queue) = 2
    /\ Enqueued(ret.pid) = 0

\* C14: a Fork by a live parent that returns enqueues the child and then the
\* parent: at the tail of the one queue in RoundRobin, each at the tail of the
\* queue of its priority in RobinPriority.  In RoundRobin the next after pid 1
\* forked pid 2 returns Run for pid 2, and while the two are alone and expire,
\* next returns the one that did not just expire.
C14_ForkEnqueuesChildThenParent ==
    [][/\ (ForkReturns /\ call'.pid \in Live /\ policy = "RoundRobin")
          => queue' = queue \o <<ret'.pid, call'.pid>>
       /\ (ForkReturns /\ call'.pid \in Live /\ policy = "RobinPriority")
          => queues' = PushBack(PushBack(queues, call'.arg, ret'.pid),
                                processes'[call'.pid].priority, call'.pid)
       /\ (/\ policy = "RoundRobin" /\ call'.op = "next"
           /\ call.op = "stop" /\ call.kind = "Fork" /\ call.pid = 1
           /\ ret = PidResult(2))
          => ret' = Run(2, timeslice)
       /\ (/\ policy = "RoundRobin" /\ call'.op = "next"
           /\ call.op = "stop" /\ call.kind = "Expired"
           /\ Live = {1, 2})
          => ret' = Run(3 - call.pid, timeslice)]_vars

\* RoundRobin with timeslice 3: pid 2 has expired and pid 1 is dispatched
\* again, pid 2 behind it in the queue.
C14_Witness ==
    /\ policy = "RoundRobin" /\ timeslice = 3
    /\ IsNext
    /\ ret = Run(1, 3)
    /\ Live = {1, 2}
    /\ queue = <<2>>
    /\ next_pid = 3

\* C15: in RobinPriority the process a next dispatches has the highest
\* priority of the processes that were Ready at the call.
C15_DispatchesHighestPriority ==
    [][(policy = "RobinPriority" /\ call'.op = "next" /\ ret'.kind = "Run")
       => /\ ret'.pid \in ReadyPids
          /\ \A q \in ReadyPids :
                processes[q].priority <= processes[ret'.pid].priority]_vars

\* A process has been dispatched over a Ready process of lower priority.
C15_Witness ==
    /\ policy = "RobinPriority"
    /\ IsNext
    /\ ret.kind = "Run"
    /\ \E q \in ReadyPids : processes[q].priority < processes[ret.pid].priority

Clamp(p) == IF p < 0 THEN 0 ELSE IF p > 5 THEN 5 ELSE p

\* C16: in RobinPriority a Fork(p) returns whatever p is, the child has
\* priority clamp(p, 0, 5) and is the last of that priority's queue, and every
\* process of the table has a priority in 0..5.
C16_ForkClampsPriority ==
    [][(policy = "RobinPriority" /\ call'.op = "stop" /\ call'.kind = "Fork")
       => /\ ~aborted'
          /\ ret'.kind = "Pid"
          /\ processes'[ret'.pid].priority = Clamp(call'.arg)
          /\ Occurrences(queues'[Clamp(call'.arg) + 1], ret'.pid) = 1
          /\ \A p \in Live' : InRange(processes'[p].priority)]_vars

\* C17: in RobinPriority a stop(Expired) lowers the priority of the process
\* by one, or leaves it at 0, and puts the process at the tail of the queue of
\* the new priority; of two processes alone, the one that has just expired
\* and is not above the other is dispatched after the other.
C17_ExpiredLowersPriority ==
    [][/\ (/\ policy = "RobinPriority"
           /\ call'.op = "stop" /\ call'.kind = "Expired"
           /\ call'.pid \in Live)
          => LET old == processes[call'.pid].priority
                 new == IF old > 0 THEN old - 1 ELSE 0
             IN  /\ processes'[call'.pid].priority = new
                 /\ processes'[call'.pid].state = "Ready"
                 /\ queues' = PushBack(queues, new, call'.pid)
       /\ (/\ policy = "RobinPriority"
           /\ call.op = "stop" /\ call.kind = "Expired"
           /\ call.pid \in Live
           /\ Cardinality(Live) = 2
           /\ \A b \in Live : processes[b].priority >= processes[call.pid].priority
           /\ call'.op = "next")
          => /\ ret'.kind = "Run"
             /\ ret'.pid \in Live \ {call.pid}]_vars

\* Two processes had priority 3; the one that ran has expired to priority 2
\* and the other has been dispatched.
C17_Witness ==
    /\ policy = "RobinPriority"
    /\ IsNext
    /\ ret.kind = "Run"
    /\ Live = {1, 2}
    /\ processes[ret.pid].priority = 3
    /\ \E a \in ReadyPids : processes[a].priority = 2 /\ queues[3] = <<a>>

\* C18: in RobinPriority a stop with Fork, Sleep, Wait or Signal that returns
\* raises the priority of the caller by one, or leaves it at 5; a Fork raises
\* the parent by one and no more.
C18_SyscallRaisesPriority ==
    [][(/\ policy = "RobinPriority"
        /\ call'.op = "stop"
        /\ call'.kind \in {"Fork", "Sleep", "Wait", "Signal"}
        /\ call'.pid \in Live
        /\ ret'.kind # "None")
       => LET old == processes[call'.pid].priority
          IN  processes'[call'.pid].priority = IF old < 5 THEN old + 1 ELSE 5]_vars

\* Pid 1 at priority 2 has forked pid 3 and is at priority 3.
C18_Witness ==
    /\ policy = "RobinPriority"
    /\ IsStop("Fork")
    /\ call.pid = 1 /\ 1 \in Live
    /\ ret = PidResult(3)
    /\ processes[1].priority = 3
    /\ queues[4] = <<3, 1>>

\* C19: in CfsScheduler the process a next dispatches was Ready at the call
\* and no process Ready at the call had a smaller vruntime.
C19_DispatchesMinimalVruntime ==
    [][(policy = "CfsScheduler" /\ call'.op = "next" /\ ret'.kind = "Run")
       => /\ ret'.pid \in ReadyPids
          /\ \A q \in ReadyPids :
                processes[ret'.pid].vruntime <= processes[q].vruntime]_vars

\* A process has been dispatched over a Ready process of larger vruntime.
C19_Witness ==
    /\ policy = "CfsScheduler"
    /\ IsNext
    /\ ret.kind = "Run"
    /\ \E q \in ReadyPids : processes[q].vruntime > processes[ret.pid].vruntime

\* C20: in CfsScheduler, of the Ready processes of minimal vruntime the one
\* of smallest pid is dispatched.
C20_TiesGoToSmallestPid ==
    [][(policy = "CfsScheduler" /\ call'.op = "next" /\ ret'.kind = "Run")
       => \A q \in ReadyPids :
             processes[q].vruntime = processes[ret'.pid].vruntime
             => ret'.pid <= q]_vars

\* The processes that are Ready or Running.
ActivePids == {p \in Live : processes[p].state \in {"Ready", "Running"}}

\* C21: in CfsScheduler every Run carries base_time div N, or 1 when that is
\* 0, N being the number of processes Ready or Running at the call.
C21_CfsSliceIsBaseOverActive ==
    [][(policy = "CfsScheduler" /\ call'.op = "next" /\ ret'.kind = "Run")
       => LET N == Cardinality(ActivePids)
          IN  /\ N >= 1
              /\ ret'.n >= 1
              /\ ret'.n = IF cfs_base_time \div N >= 1
                          THEN cfs_base_time \div N ELSE 1]_vars

\* Three processes share a base time of 2: the timeslice granted is 1.
C21_Witness ==
    /\ policy = "CfsScheduler"
    /\ IsNext
    /\ ret.kind = "Run" /\ ret.n = 1
    /\ Cardinality(Live) > cfs_base_time

\* The ticks a stop reports as executed, of a timeslice of granted ticks.
Executed(granted, stopCall) ==
    IF stopCall.kind = "Expired" THEN granted ELSE granted - stopCall.remaining

\* C22: in CfsScheduler no step lowers a vruntime, a next changes none, and
\* the stop that follows a Run returns and adds to the vruntime of the process
\* that ran the ticks it executed: the timeslice granted if it expired, the
\* timeslice granted minus remaining if it made a syscall; the vruntime of
\* every other process stays.
C22_StopChargesExecutedTicks ==
    [][policy = "CfsScheduler" =>
        /\ \A q \in Live \cap Live' : processes'[q].vruntime >= processes[q].vruntime
        /\ call'.op = "next"
           => \A q \in Live : processes'[q].vruntime = processes[q].vruntime
        /\ (call.op = "next" /\ ret.kind = "Run" /\ call'.op = "stop")
           => /\ ~aborted'
              /\ ret'.kind # "None"
              /\ Executed(ret.n, call') >= 0
              /\ AllocatedTime = ret.n
              /\ \A q \in (Live \cap Live') \ {ret.pid} :
                    processes'[q].vruntime = processes[q].vruntime
              /\ ret.pid \in Live'
                 => processes'[ret.pid].vruntime
                    = processes[ret.pid].vruntime + Executed(ret.n, call')]_vars

\* A process of vruntime 3 granted 2 ticks beside another process has made a
\* syscall with 1 tick remaining, and has vruntime 4.
C22_Witness ==
    /\ policy = "CfsScheduler"
    /\ IsStop("Signal")
    /\ call.remaining = 1
    /\ call.pid \in Live
    /\ Cardinality(Live) = 2
    /\ cfs_base_time = 5
    /\ processes[call.pid].vruntime = 4
    /\ \E q \in Live : processes[q].vruntime = 3

\* C23: in CfsScheduler the child of a Fork has the vruntime of its parent
\* after the parent was charged the ticks it executed; the child of a parent
\* that is not in the table, as in the bootstrap fork, has vruntime 0.
C23_ChildInheritsVruntime ==
    [][(policy = "CfsScheduler" /\ ForkReturns)
       => /\ call'.pid \in Live
             => /\ processes'[ret'.pid].vruntime = processes'[call'.pid].vruntime
                /\ processes'[ret'.pid].vruntime
                   = processes[call'.pid].vruntime + Executed(AllocatedTime, call')
          /\ call'.pid \notin Live => processes'[ret'.pid].vruntime = 0]_vars

\* A parent that has executed ticks has forked a child of the same vruntime.
C23_Witness ==
    /\ policy = "CfsScheduler"
    /\ IsStop("Fork")
    /\ call.pid \in Live
    /\ processes[ret.pid].vruntime = 3
    /\ processes[call.pid].vruntime = 3

\* C24: the timings list reports follow the accounting: a process whose
\* timeslice has just expired has executed at least one tick and is not
\* listed with timings (0, 0, 0).
C24_ListReportsAccounting ==
    (/\ listed.called
     /\ call.op = "stop" /\ call.kind = "Expired"
     /\ call.pid \in Live)
    => \A e \in listed.entries : e.pid = call.pid => e.timings # <<0, 0, 0>>

\* C25: list changes nothing of the scheduler and returns one entry for each
\* process of the table, with its pid and its state; a list that follows a
\* list returns the same entries.
C25_ListIsReadOnly ==
    [][listed'.called
       => /\ UNCHANGED <<config, processes, queue, queues, next_pid, aborted>>
          /\ {e.pid : e \in listed'.entries} = Live
          /\ Cardinality(listed'.entries) = Cardinality(Live)
          /\ \A e \in listed'.entries : e.state = processes[e.pid].state
          /\ listed.called => listed'.entries = listed.entries]_vars

\* list has returned two entries, one of them for the Running process.
C25_Witness ==
    /\ listed.called
    /\ Cardinality(listed.entries) = 2
    /\ \E e \in listed.entries : e.state = "Running" /\ e.pid \in RunningPids
    /\ \E e \in listed.entries : e.state = "Ready"

\* C26: a next that returns Run sets the state of the pid to Running and takes
\* the pid off the front of its runqueue, and changes nothing else; a next
\* that returns anything else changes nothing.
C26_NextOnlyDispatches ==
    [][call'.op = "next"
       => /\ UNCHANGED <<config, next_pid, aborted>>
          /\ IF ret'.kind = "Run"
             THEN /\ ret'.pid \in Live
                  /\ processes' = [processes EXCEPT ![ret'.pid].state = "Running"]
                  /\ policy = "RoundRobin"
                     => queue = <<ret'.pid>> \o queue' /\ queues' = queues
                  /\ policy = "RobinPriority"
                     => /\ queue' = queue
                        /\ queues = [queues' EXCEPT ![processes[ret'.pid].priority + 1]
                                                      = <<ret'.pid>> \o @]
                  /\ policy = "CfsScheduler"
                     => queue' = queue /\ queues' = queues
             ELSE UNCHANGED <<processes, queue, queues>>]_vars

\* RobinPriority has dispatched one of three processes; the two others are
\* still in the queues.
C26_Witness ==
    /\ policy = "RobinPriority"
    /\ IsNext
    /\ ret.kind = "Run"
    /\ Cardinality(Live) = 3
    /\ Enqueued(ret.pid) = 0
    /\ \A p \in Live \ {ret.pid} : Enqueued(p) = 1

\* C27: the decision of a next is a function of the state of the scheduler:
\* in CfsScheduler the pid dispatched is the only one the selection can end
\* on, whatever the order in which the table is walked.
C27_NextIsDeterministic ==
    [][(policy = "CfsScheduler" /\ call'.op = "next" /\ ret'.kind = "Run")
       => \A p \in CfsSelectable : ret'.pid = p]_vars

C29_TimesliceIsConstant ==
    [][(policy = "RoundRobin" \/ policy = "RobinPriority")
       => /\ timeslice' = timeslice
          /\ (call'.op = "next" /\ ret'.kind = "Run") => ret'.n = timeslice]_vars

\* RobinPriority built with timeslice 5 has dispatched a process of priority
\* 3 beside a process of another priority, for 5 ticks.
C29_Witness ==
    /\ policy = "RobinPriority" /\ timeslice = 5
    /\ IsNext
    /\ ret.kind = "Run" /\ ret.n = 5
    /\ processes[ret.pid].priority = 3
    /\ \E q \in Live : processes[q].priority # 3

\* C30: next returns Done only when the table is empty.
C30_DoneOnlyWhenTableEmpty ==
    (IsNext /\ ret = Done) => Live = {}

\* The place of pid in seq, counted from 0, when pid is in seq once.
Position(seq, pid) == (CHOOSE i \in 1..Len(seq) : seq[i] = pid) - 1

\* C31: in RoundRobin every Ready process is in the queue once; a next
\* dispatches the process at position 0 and moves every other process of the
\* queue one position forward, and a stop leaves every process of the queue at
\* its position: the process at position k is dispatched by the (k+1)-th next.
C31_RoundRobinBoundedWait ==
    [][policy = "RoundRobin" =>
        /\ \A p \in ReadyPids : Occurrences(queue, p) = 1
        /\ \A p \in ReadyPids :
            /\ call'.op = "next"
               => IF Position(queue, p) = 0
                  THEN ret' = Run(p, timeslice)
                  ELSE /\ ret'.kind = "Run"
                       /\ Occurrences(queue', p) = 1
                       /\ Position(queue', p) = Position(queue, p) - 1
            /\ call'.op = "stop"
               => /\ Occurrences(queue', p) = 1
                  /\ Position(queue', p) = Position(queue, p)]_vars

\* Pid 3 has been dispatched from the head of a queue of three, and the two
\* processes behind it have moved to positions 0 and 1.
C31_Witness ==
    /\ policy = "RoundRobin"
    /\ IsNext
    /\ ret.kind = "Run" /\ ret.pid = 3
    /\ Live = {1, 2, 3}
    /\ Len(queue) = 2
    /\ Position(queue, 1) + Position(queue, 2) = 1

\* C33: in RobinPriority, as long as no Fork has aborted, every Ready process
\* is once in the queue of its priority and in no other queue.
C33_ReadyInQueueOfItsPriority ==
    (policy = "RobinPriority" /\ ~aborted)
    => \A p \in ReadyPids : \A i \in 0..5 :
          Occurrences(queues[i + 1], p)
          = IF i = processes[p].priority THEN 1 ELSE 0

\* Two Ready processes wait in the queues of priorities 3 and 1 while a third runs.
C33_Witness ==
    /\ policy = "RobinPriority"
    /\ ~aborted
    /\ RunningPids # {}
    /\ \E p, q \in ReadyPids :
          /\ processes[p].priority = 3 /\ queues[4] = <<p>>
          /\ processes[q].priority = 1 /\ queues[2] = <<q>>

\* C34: a stop with Expired, Exit, Sleep, Wait or Signal that names a pid
\* that is not in the table returns Success and changes nothing of the
\* scheduler.
C34_StopOfAbsentPidIsNoOp ==
    [][(/\ call'.op = "stop"
        /\ call'.kind \in {"Expired", "Exit", "Sleep", "Wait", "Signal"}
        /\ call'.pid \notin Live)
       => /\ ret' = Success
          /\ UNCHANGED <<config, processes, queue, queues, next_pid, aborted>>]_vars

\* next has just returned Run for pid.
Dispatched(pid) == IsNext /\ ret.kind = "Run" /\ ret.pid = pid

\* From some point on every stop is Expired.
OnlyExpiredFromSomePoint ==
    <>[][call'.op = "stop" => call'.kind = "Expired"]_vars

\* C32: in RobinPriority, when no call aborts and from some point on every
\* stop is Expired, every process that is in the table is dispatched then or
\* later, whatever the priorities are at that point.
C32_ExpiringProcessesAllRun ==
    \A p \in 1..MaxPid :
        (policy = "RobinPriority" /\ []~aborted /\ OnlyExpiredFromSomePoint)
        => [](p \in Live => <>Dispatched(p))

\* Pid 2, created at priority 0 beside pid 1 of priority 3, is dispatched
\* once pid 1 has decayed to priority 0.
C32_Witness ==
    /\ policy = "RobinPriority"
    /\ Dispatched(2)
    /\ call.op = "next"
    /\ next_pid = 3
    /\ Live = {1, 2}
    /\ processes[2].priority = 0
    /\ processes[1].priority = 0
    /\ queues[1] = <<1>>

====
